---- MODULE Spec2Model ----
(***************************************************************************)
(* Model of the feature-flag service of src/main.rs: the flags table, the  *)
(* create_flag / update_flag / delete_flag / evaluate handlers, and the    *)
(* evaluator eval_flag with its rollout gate and weighted variant walk.    *)
(*                                                                         *)
(* Conventions.                                                            *)
(*   Option<T>   None is <<>>, Some(x) is <<x>>.                           *)
(*   u32         a pair <<hi, lo>> of 16-bit limbs (value hi*2^16 + lo);   *)
(*               the same pair with hi >= 2^16 is the exact sum before it  *)
(*               is reduced to 32 bits.                                    *)
(*   HashMap     a function from variant names to u32 weights; the order   *)
(*               in which iter()/values() visit it is not specified, so    *)
(*               every traversal takes a permutation of the keys as input. *)
(*   blake3      the digest is the output of an external crate; the model  *)
(*               keeps the leading four bytes of the two digests of the    *)
(*               current (key, user_id) pair as state fixed at Init.       *)
(***************************************************************************)
EXTENDS Integers, Sequences, FiniteSets, TLC

VARIABLES
    db,               \* the flags table: key -> Option<row>
    req,              \* the write request each slot is running, and where it stands
    resp,             \* Option<response>: the answer to each slot's latest request
    user_id,          \* Option<String>: the user_id the client sends to /evaluate
    gate_digest,      \* first 4 bytes of blake3(key ":" user_id)
    variant_digest,   \* first 4 bytes of blake3(key "/" user_id)
    overflow_checks,  \* build profile: TRUE panics on integer overflow, FALSE wraps
    calls             \* what the /evaluate requests made so far came back with

vars == <<db, req, resp, user_id, gate_digest, variant_digest, overflow_checks, calls>>

(***************************************************************************)
(* Bounds of the model.                                                    *)
(***************************************************************************)
MaxCalls == 2
MaxWeight == 2
MaxPick == 5

Hundred == 100

None == <<>>
Some(x) == <<x>>

(***************************************************************************)
(* u32 arithmetic on 16-bit limbs.                                         *)
(***************************************************************************)
Base == 2^16

U32(n) == <<n \div Base, n % Base>>
U32Zero == <<0, 0>>
U32Max == <<Base - 1, Base - 1>>

\* exact sum of two limb pairs, the high limb left unreduced
ExactAdd(a, b) ==
    LET lo == a[2] + b[2]
    IN  <<a[1] + b[1] + (lo \div Base), lo % Base>>

Fits32(a) == a[1] < Base
Wrap32(a) == <<a[1] % Base, a[2]>>
Less(a, b) == a[1] < b[1] \/ (a[1] = b[1] /\ a[2] < b[2])

\* a - b modulo 2^32
WrappingSub(a, b) ==
    LET borrow == IF a[2] < b[2] THEN 1 ELSE 0
    IN  <<(a[1] - b[1] - borrow + Base) % Base, (a[2] - b[2] + Base) % Base>>

ToInt(a) == a[1] * Base + a[2]               \* defined for values below 2^31

\* n % m on u32 (m > 0). TLC integers stop at 2^31 - 1,
\* so n is halved first: n = 2 * half + bit, n % m = (2 * (half % m) + bit) % m.
U32Rem(n, m) ==
    IF m[1] < 2^15
    THEN LET mi == ToInt(m)
             half == n[1] * 2^15 + (n[2] \div 2)
             bit == n[2] % 2
             x == half % mi
         IN  IF x >= mi - x - bit THEN U32(x - (mi - x - bit)) ELSE U32(x + x + bit)
    ELSE IF Less(n, m) THEN n ELSE WrappingSub(n, m)

\* u32::from_le_bytes(hk(bytes))
hk(b) == <<b[1], b[2], b[3], b[4]>>
from_le_bytes(b) == <<b[3] + 256 * b[4], b[1] + 256 * b[2]>>

(***************************************************************************)
(* HashMap traversal orders.                                               *)
(***************************************************************************)
Orders(S) ==
    {o \in [1..Cardinality(S) -> S] : \A i, j \in 1..Cardinality(S) : i # j => o[i] # o[j]}

(***************************************************************************)
(* eval_flag.                                                              *)
(***************************************************************************)
EvalResponse(k, m, v) == [key |-> k, matched |-> m, variant |-> v]

\* what a call does: it returns a response, or it panics (overflow checks on)
Returned(r) == [status |-> "ok", response |-> Some(r)]
Panicked == [status |-> "panic", response |-> None]
NotFound == [status |-> "not_found", response |-> None]

\* Gate with an absent identifier let through
Gate_FailOpen(f, uid) ==
    IF f.rollout = None THEN TRUE
    ELSE IF uid = None THEN TRUE
    ELSE (gate_digest[1] % Hundred) < f.rollout[1]

\* Gate with <= for <
Gate_Inclusive(f, uid) ==
    IF f.rollout = None THEN TRUE
    ELSE IF uid = None THEN FALSE
    ELSE (gate_digest[1] % Hundred) <= f.rollout[1]

\* Gate with the comparison turned around
Gate_Inverted(f, uid) ==
    IF f.rollout = None THEN TRUE
    ELSE IF uid = None THEN FALSE
    ELSE f.rollout[1] < (gate_digest[1] % Hundred)

\* let gate = match flag.rollout { ... }
Gate(f, uid) ==
    IF f.rollout = None THEN TRUE
    ELSE IF uid = None THEN FALSE
    ELSE (gate_digest[1] % Hundred) < f.rollout[1]

\* vs.values().copied().sum(): the exact sum over one traversal
RECURSIVE SumFrom(_, _, _, _)
SumFrom(vs, order, i, acc) ==
    IF i > Len(order) THEN acc
    ELSE SumFrom(vs, order, i + 1, ExactAdd(acc, vs[order[i]]))

ExactTotal(vs, order) == SumFrom(vs, order, 1, U32Zero)

\* let pick = match user_id { None => 0, Some(uid) => n % total }
Pick(uid, total) ==
    IF uid = None THEN U32Zero
    ELSE U32Rem(from_le_bytes(hk(variant_digest)), total)

\* for (name, weight) in vs.iter() { acc += *weight; if pick < acc { return ... } }
RECURSIVE Walk(_, _, _, _, _, _)
Walk(k, vs, order, pick, i, acc) ==
    IF i > Len(order) THEN Returned(EvalResponse(k, TRUE, None))
    ELSE LET s == ExactAdd(acc, vs[order[i]])
         IN  IF ~Fits32(s) /\ overflow_checks THEN Panicked
             ELSE IF Less(pick, Wrap32(s))
                  THEN Returned(EvalResponse(k, TRUE, Some(order[i])))
                  ELSE Walk(k, vs, order, pick, i + 1, Wrap32(s))

\* Select without the total == 0 return: n % 0 panics
Select_NoZeroGuard(k, vs, uid, order) ==
    LET sum == ExactTotal(vs, order)
        total == Wrap32(sum)
    IN  IF ~Fits32(sum) /\ overflow_checks THEN Panicked
        ELSE IF total = U32Zero /\ uid # None THEN Panicked
        ELSE Walk(k, vs, order, IF total = U32Zero THEN U32Zero ELSE Pick(uid, total),
                  1, U32Zero)

\* if let Some(vs) = &flag.variants { ... }
Select(k, vs, uid, order) ==
    LET sum == ExactTotal(vs, order)
        total == Wrap32(sum)
    IN  IF ~Fits32(sum) /\ overflow_checks THEN Panicked
        ELSE IF total = U32Zero THEN Returned(EvalResponse(k, TRUE, None))
        ELSE Walk(k, vs, order, Pick(uid, total), 1, U32Zero)

\* eval_flag without the !flag.enabled test
eval_flag_IgnoresEnabled(f, uid, order) ==
    IF ~Gate(f, uid) THEN Returned(EvalResponse(f.key, FALSE, None))
    ELSE IF f.variants # None THEN Select(f.key, f.variants[1], uid, order)
    ELSE Returned(EvalResponse(f.key, TRUE, None))

eval_flag(f, uid, order) ==
    IF ~f.enabled \/ ~Gate(f, uid) THEN Returned(EvalResponse(f.key, FALSE, None))
    ELSE IF f.variants # None THEN Select(f.key, f.variants[1], uid, order)
    ELSE Returned(EvalResponse(f.key, TRUE, None))

(***************************************************************************)
(* Rows of the flags table and their conversion to Flag.  The id and       *)
(* updated_at columns are read by no handler logic and are left out.       *)
(***************************************************************************)
Flag(k, e, v, r) == [key |-> k, enabled |-> e, variants |-> v, rollout |-> r]
Row(k, e, v, r) == [key |-> k, enabled |-> e, variants |-> v, rollout |-> r]

\* serde_json::to_string(&HashMap): the entries in the map's traversal order
to_string(m, order) == [i \in 1..Len(order) |-> <<order[i], m[order[i]]>>]

\* serde_json::from_str::<HashMap<String, u32>>: a later entry replaces an earlier one
from_str(text) ==
    [name \in {text[i][1] : i \in 1..Len(text)} |->
        LET last == CHOOSE i \in 1..Len(text) :
                        /\ text[i][1] = name
                        /\ \A j \in (i + 1)..Len(text) : text[j][1] # name
        IN  text[last][2]]

as_u8(x) == x % 256
bool_to_int(b) == IF b THEN 1 ELSE 0

row_to_flag(r) ==
    Flag(r.key,
         r.enabled # 0,
         IF r.variants = None THEN None ELSE Some(from_str(r.variants[1])),
         IF r.rollout = None THEN None ELSE Some(as_u8(r.rollout[1])))

(***************************************************************************)
(* Input sets.                                                             *)
(***************************************************************************)
Keys == {"new-ui"}
NameOrder == <<"A", "B", "C">>              \* the names, in lexicographic order
Names == {NameOrder[i] : i \in 1..Len(NameOrder)}
Sorted(S) == SelectSeq(NameOrder, LAMBDA x : x \in S)
Weights == {U32(w) : w \in 0..MaxWeight} \cup {U32Max}
VariantMaps == UNION {[S -> Weights] : S \in SUBSET Names}
Users == {None, Some("user1")}
ZeroDigest == <<0, 0, 0, 0>>
Procs == {1, 2}
Idle == [pc |-> "idle"]

\* the stored flag of key k (the table holds a row for it)
Stored(k) == row_to_flag(db[k][1])

\* one flag is stored, with any of many variant maps and a few rollouts
InitEval ==
    /\ req = [p \in Procs |-> Idle]
    /\ resp = [p \in Procs |-> None]
    /\ calls = <<>>
    /\ overflow_checks \in BOOLEAN
    /\ \/ db = [x \in Keys |-> None]
       \/ \E k \in Keys, e \in BOOLEAN,
             v \in {None} \cup {Some(to_string(m, Sorted(DOMAIN m))) : m \in VariantMaps},
             r \in {None, Some(0), Some(50), Some(Hundred)} :
             db = [x \in Keys |-> IF x = k THEN Some(Row(k, bool_to_int(e), v, r)) ELSE None]
    /\ user_id \in Users
    /\ IF user_id = None
       THEN gate_digest = ZeroDigest /\ variant_digest = ZeroDigest
       ELSE /\ gate_digest \in {<<b, 0, 0, 0>> : b \in {49, 50, 255}}
            /\ variant_digest \in {<<b, 0, 0, 0>> : b \in 0..MaxPick}
                                      \cup {<<255, 255, 255, 255>>, <<0, 0, 1, 0>>}

\* one flag is stored, with any rollout, and the gate digest starts with any byte
InitGate ==
    /\ req = [p \in Procs |-> Idle]
    /\ resp = [p \in Procs |-> None]
    /\ calls = <<>>
    /\ overflow_checks \in BOOLEAN
    /\ \/ db = [x \in Keys |-> None]
       \/ \E k \in Keys, e \in BOOLEAN,
             r \in {None} \cup {Some(p) : p \in 0..Hundred} :
             db = [x \in Keys |-> IF x = k THEN Some(Row(k, bool_to_int(e), None, r)) ELSE None]
    /\ user_id \in Users
    /\ variant_digest = ZeroDigest
    /\ IF user_id = None
       THEN gate_digest = ZeroDigest
       ELSE gate_digest \in {<<b, 0, 0, 0>> : b \in 0..255}

VariantKeys(f) == IF f.variants = None THEN {} ELSE DOMAIN f.variants[1]

\* POST /evaluate {key, user_id}: row_to_flag builds a fresh HashMap for each
\* request, so each call traverses the variants in an order of its own
evaluate ==
    /\ Len(calls) < MaxCalls
    /\ \E k \in Keys :
          \/ /\ db[k] = None
             /\ calls' = Append(calls, NotFound)
          \/ /\ db[k] # None
             /\ \E order \in Orders(VariantKeys(Stored(k))) :
                   calls' = Append(calls, eval_flag(Stored(k), user_id, order))
    /\ UNCHANGED <<db, req, resp, user_id, gate_digest, variant_digest, overflow_checks>>

(***************************************************************************)
(* The write handlers.  Each .await on the pool is one step: statements of *)
(* different requests interleave, and no handler opens a transaction.  A   *)
(* request runs in a slot p; resp[p] is the response to the slot's latest   *)
(* request, None while that request is still running.                      *)
(***************************************************************************)
CreateInputs ==
    [key : Keys, enabled : {TRUE},
     variants : {None, Some([n \in {"A"} |-> U32(1)])},
     rollout : {None, Some(Hundred + 1)}]

Patch(e, v, r) == [enabled |-> e, variants |-> v, rollout |-> r]

UpdateInputs ==
    {Patch(Some(FALSE), None, None),
     Patch(None, Some([n \in {"B"} |-> U32(1)]), None),
     Patch(None, None, Some(Hundred)),
     Patch(None, None, Some(Hundred + 1))}

\* Ok(Json(f)), Ok(()) and Err(StatusCode)
Ok(body) == [status |-> 200, body |-> body]
Err(code) == [status |-> code, body |-> None]

Respond(p, r) == resp' = [resp EXCEPT ![p] = r]

\* POST /flags, up to the INSERT: 400 on rollout > 100, 409 when the INSERT
\* hits the UNIQUE key
create_flag_insert(p) ==
    /\ req[p].pc = "idle"
    /\ \E input \in CreateInputs :
          \/ /\ input.rollout # None /\ input.rollout[1] > Hundred
             /\ Respond(p, Err(400))
             /\ UNCHANGED <<db, req>>
          \/ /\ ~(input.rollout # None /\ input.rollout[1] > Hundred)
             /\ db[input.key] # None
             /\ Respond(p, Err(409))
             /\ UNCHANGED <<db, req>>
          \/ /\ ~(input.rollout # None /\ input.rollout[1] > Hundred)
             /\ db[input.key] = None
             /\ \E order \in Orders(VariantKeys(input)) :
                   db' = [db EXCEPT ![input.key] =
                            Some(Row(input.key, bool_to_int(input.enabled),
                                     IF input.variants = None THEN None
                                     ELSE Some(to_string(input.variants[1], order)),
                                     input.rollout))]
             /\ req' = [req EXCEPT ![p] = [pc |-> "created", key |-> input.key]]
             /\ Respond(p, None)
    /\ UNCHANGED <<user_id, gate_digest, variant_digest, overflow_checks, calls>>

\* the closing SELECT ... WHERE key = ? with fetch_one: the row as it is now is
\* the response, 500 when it is gone
closing_select(p, k) ==
    /\ \/ /\ db[k] = None
          /\ Respond(p, Err(500))
       \/ /\ db[k] # None
          /\ Respond(p, Ok(Some(Stored(k))))
    /\ req' = [req EXCEPT ![p] = Idle]
    /\ UNCHANGED <<db, user_id, gate_digest, variant_digest, overflow_checks, calls>>

\* POST /flags, from the INSERT to the response
create_flag_select(p) ==
    /\ req[p].pc = "created"
    /\ closing_select(p, req[p].key)

create_flag(p) ==
    \/ create_flag_insert(p)
    \/ create_flag_select(p)

\* DELETE /flags/:key (404 when no row was deleted)
delete_flag(p) ==
    /\ req[p].pc = "idle"
    /\ \E k \in Keys :
          /\ db' = [db EXCEPT ![k] = None]
          /\ Respond(p, IF db[k] = None THEN Err(404) ELSE Ok(None))
    /\ UNCHANGED <<req, user_id, gate_digest, variant_digest, overflow_checks, calls>>

\* PATCH /flags/:key, up to the SELECT of the existing row
update_flag_select(p) ==
    /\ req[p].pc = "idle"
    /\ \E k \in Keys, input \in UpdateInputs :
          \/ /\ input.rollout # None /\ input.rollout[1] > Hundred
             /\ Respond(p, Err(400))
             /\ UNCHANGED req
          \/ /\ ~(input.rollout # None /\ input.rollout[1] > Hundred)
             /\ db[k] = None
             /\ Respond(p, Err(404))
             /\ UNCHANGED req
          \/ /\ ~(input.rollout # None /\ input.rollout[1] > Hundred)
             /\ db[k] # None
             /\ req' = [req EXCEPT ![p] =
                          [pc |-> "update", input |-> input, existing |-> Stored(k)]]
             /\ Respond(p, None)
    /\ UNCHANGED <<db, user_id, gate_digest, variant_digest, overflow_checks, calls>>

\* the three values bound to UPDATE flags SET enabled = ?, variants = ?, rollout = ?
merged(input, existing, order) ==
    [enabled |-> IF input.enabled # None THEN input.enabled[1] ELSE existing.enabled,
     variants |-> IF input.variants # None THEN Some(to_string(input.variants[1], order))
                  ELSE IF existing.variants # None
                       THEN Some(to_string(existing.variants[1], order))
                       ELSE None,
     rollout |-> IF input.rollout # None THEN input.rollout ELSE existing.rollout]

MergedKeys(input, existing) ==
    IF input.variants # None THEN DOMAIN input.variants[1] ELSE VariantKeys(existing)

\* PATCH /flags/:key, the UPDATE ... WHERE key = existing.key
update_flag_update(p) ==
    /\ req[p].pc = "update"
    /\ LET k == req[p].existing.key
       IN  \E order \in Orders(MergedKeys(req[p].input, req[p].existing)) :
              LET m == merged(req[p].input, req[p].existing, order)
              IN  db' = [db EXCEPT ![k] =
                           IF db[k] = None THEN None
                           ELSE Some(Row(k, bool_to_int(m.enabled), m.variants, m.rollout))]
    /\ req' = [req EXCEPT ![p] = [pc |-> "reselect", key |-> req[p].existing.key]]
    /\ UNCHANGED <<resp, user_id, gate_digest, variant_digest, overflow_checks, calls>>

\* PATCH /flags/:key, from the UPDATE to the response
update_flag_reselect(p) ==
    /\ req[p].pc = "reselect"
    /\ closing_select(p, req[p].key)

update_flag(p) ==
    \/ update_flag_select(p)
    \/ update_flag_update(p)
    \/ update_flag_reselect(p)

\* the service starts with an empty table
Init ==
    /\ db = [k \in Keys |-> None]
    /\ req = [p \in Procs |-> Idle]
    /\ resp = [p \in Procs |-> None]
    /\ calls = <<>>
    /\ overflow_checks = FALSE
    /\ user_id = Some("user1")
    /\ gate_digest = <<49, 0, 0, 0>>
    /\ variant_digest = <<1, 0, 0, 0>>

Next ==
    \/ \E p \in Procs : create_flag(p)
    \/ \E p \in Procs : delete_flag(p)
    \/ \E p \in Procs : update_flag(p)
    \/ evaluate

Spec == Init /\ [][Next]_vars

\* a flag is stored and PATCH and DELETE requests arrive
InitPatch ==
    /\ \E k \in Keys, e \in BOOLEAN,
          v \in {None, Some(to_string([n \in {"A"} |-> U32(1)], <<"A">>))},
          r \in {None, Some(50)} :
          db = [x \in Keys |-> IF x = k THEN Some(Row(k, bool_to_int(e), v, r)) ELSE None]
    /\ req = [p \in Procs |-> Idle]
    /\ resp = [p \in Procs |-> None]
    /\ calls = <<>>
    /\ overflow_checks = FALSE
    /\ user_id = Some("user1")
    /\ gate_digest = <<49, 0, 0, 0>>
    /\ variant_digest = <<1, 0, 0, 0>>

NextPatch ==
    \/ \E p \in Procs : delete_flag(p)
    \/ \E p \in Procs : update_flag(p)

SpecPatch == InitPatch /\ [][NextPatch]_vars

NextEval == evaluate

SpecEval == InitEval /\ [][NextEval]_vars
SpecGate == InitGate /\ [][NextEval]_vars
(***************************************************************************)
(* Properties.  In SpecEval and SpecGate the table, the identifier and the *)
(* digests never change, and every request names the one key: all calls of *)
(* a behaviour have identical inputs.                                      *)
(***************************************************************************)
Called == Len(calls) > 0
HasFlag(k) == db[k] # None
Answer(k, m, v) == Returned(EvalResponse(k, m, v))

\* the exact (unreduced) weight total of a variants map
WeightTotal(vs) == ExactTotal(vs, Sorted(DOMAIN vs))

\* the flag is enabled, its gate passes and it has a variants map
Selecting(k) ==
    /\ HasFlag(k)
    /\ Stored(k).enabled
    /\ Gate(Stored(k), user_id)
    /\ Stored(k).variants # None

\* the selection value of the specification: the hash value modulo the weight
\* total when an identifier is present, 0 when it is absent
SelectionValue(vs) ==
    LET h == from_le_bytes(hk(variant_digest))
        t == WeightTotal(vs)
    IN  IF user_id = None THEN U32Zero
        ELSE IF Fits32(t) THEN U32Rem(h, t) ELSE h

\* the exact cumulative weight of the first i names of a sequence of names
RECURSIVE Cumulative(_, _, _)
Cumulative(vs, names, i) ==
    IF i = 0 THEN U32Zero ELSE ExactAdd(Cumulative(vs, names, i - 1), vs[names[i]])

\* the first name, in lexicographic order, whose cumulative weight exceeds n
FirstExceeding(vs, n) ==
    LET names == Sorted(DOMAIN vs)
        i == CHOOSE i \in 1..Len(names) :
                /\ Less(n, Cumulative(vs, names, i))
                /\ \A j \in 1..(i - 1) : ~Less(n, Cumulative(vs, names, j))
    IN  names[i]

\* C1: two evaluations with identical inputs return identical results,
\* whatever order the variants are traversed in on each call.
C1_Determinism ==
    \A i, j \in 1..Len(calls) : calls[i] = calls[j]

\* C2: for an enabled flag whose gate passes and whose weight total is positive,
\* eval_flag returns the first variant name in lexicographic order whose
\* cumulative weight strictly exceeds the selection value.
C2_SortedWalk ==
    \A k \in Keys : \A i \in 1..Len(calls) :
        (Selecting(k) /\ WeightTotal(Stored(k).variants[1]) # U32Zero)
        => LET vs == Stored(k).variants[1]
           IN  calls[i] = Answer(k, TRUE, Some(FirstExceeding(vs, SelectionValue(vs))))

\* the number of selection values 0..t-1 for which the walk returns v
Share(k, vs, order, t, v) ==
    Cardinality({n \in 0..(t - 1) :
        Walk(k, vs, order, U32(n), 1, U32Zero) = Answer(k, TRUE, Some(v))})

\* the weight totals small enough to count the selection values one by one
Countable(t) == t[1] = 0 /\ t[2] <= Len(NameOrder) * MaxWeight

\* C3: variants are picked in proportion to their weights: with positive weight
\* total T, the walk returns v for exactly weight(v) of the selection values
\* 0..T-1, so some variant is returned for every selection value and a
\* zero-weight variant is never returned.
C3_Proportional ==
    \A k \in Keys :
        (Selecting(k) /\ WeightTotal(Stored(k).variants[1]) # U32Zero)
        => LET vs == Stored(k).variants[1]
               t == WeightTotal(vs)
           IN  /\ \A i \in 1..Len(calls) :
                     /\ calls[i].status = "ok"
                     /\ calls[i].response[1].variant # None
                     /\ vs[calls[i].response[1].variant[1]] # U32Zero
               /\ Countable(t) =>
                     \A order \in Orders(DOMAIN vs) : \A v \in DOMAIN vs :
                         Share(k, vs, order, ToInt(t), v) = ToInt(vs[v])

\* the same for the flags whose weights sum to less than 2^32
ProportionalWhenSumFits ==
    (\A k \in Keys :
        Selecting(k) => Fits32(WeightTotal(Stored(k).variants[1])))
    => C3_Proportional

\* C4: eval_flag has no failing path: for every valid flag and every identifier
\* it returns an EvalResponse, and summing the weights never overflows.
C4_NoFailingPath ==
    \A k \in Keys : \A i \in 1..Len(calls) :
        HasFlag(k)
        => /\ calls[i].status = "ok"
           /\ Selecting(k) => Fits32(WeightTotal(Stored(k).variants[1]))

\* C5: a flag whose rollout is present, evaluated without an identifier, returns
\* matched = false and variant = None, regardless of enabled and variants.
C5_FailClosed ==
    \A k \in Keys : \A i \in 1..Len(calls) :
        (HasFlag(k) /\ Stored(k).rollout # None /\ user_id = None)
        => calls[i] = Answer(k, FALSE, None)

C5_Witness ==
    /\ Called
    /\ user_id = None
    /\ \E k \in Keys :
          /\ HasFlag(k)
          /\ Stored(k).enabled
          /\ Stored(k).rollout = Some(Hundred)
          /\ Stored(k).variants # None
          /\ WeightTotal(Stored(k).variants[1]) # U32Zero

\* what an evaluation shows of the gate: an enabled flag matches exactly when
\* its gate passes
GateShown(k, i) ==
    (calls[i].status = "ok" /\ Stored(k).enabled)
    => calls[i].response[1].matched = Gate(Stored(k), user_id)

\* C6 as claimed: at rollout = 0 the gate is false for any identifier, and at
\* rollout = 100 the gate is true for every evaluation call.
C6_BoundaryGatesAsClaimed ==
    \A k \in Keys : \A i \in 1..Len(calls) :
        HasFlag(k)
        => /\ GateShown(k, i)
           /\ Stored(k).rollout = Some(0) => ~Gate(Stored(k), user_id)
           /\ Stored(k).rollout = Some(Hundred) => Gate(Stored(k), user_id)

\* C6 as amended: at rollout = 0 the gate is false for any identifier, and at
\* rollout = 100 the gate is true for every evaluation call that carries an
\* identifier.
C6_BoundaryGates ==
    \A k \in Keys : \A i \in 1..Len(calls) :
        HasFlag(k)
        => /\ GateShown(k, i)
           /\ Stored(k).rollout = Some(0) => ~Gate(Stored(k), user_id)
           /\ (Stored(k).rollout = Some(Hundred) /\ user_id # None)
                 => Gate(Stored(k), user_id)

C6_Witness ==
    /\ Called
    /\ user_id # None
    /\ gate_digest[1] = 199
    /\ \E k \in Keys :
          /\ HasFlag(k)
          /\ Stored(k).enabled
          /\ Stored(k).rollout = Some(Hundred)
          /\ calls[1] = Answer(k, TRUE, None)

\* C7: a flag with enabled = false returns matched = false and variant = None,
\* for every rollout, every variants map and every identifier.
C7_DisabledDominance ==
    \A k \in Keys : \A i \in 1..Len(calls) :
        (HasFlag(k) /\ ~Stored(k).enabled) => calls[i] = Answer(k, FALSE, None)

C7_Witness ==
    /\ Called
    /\ user_id # None
    /\ \E k \in Keys :
          /\ HasFlag(k)
          /\ ~Stored(k).enabled
          /\ Gate(Stored(k), user_id)
          /\ Stored(k).variants # None
          /\ WeightTotal(Stored(k).variants[1]) # U32Zero

AtRollout(f, q) == [f EXCEPT !.rollout = Some(q)]

\* C8: for a fixed key and a fixed present identifier, if the gate passes at
\* rollout p it passes at every rollout q with p <= q <= 100.
C8_GateMonotone ==
    \A k \in Keys : \A i \in 1..Len(calls) :
        (HasFlag(k) /\ Stored(k).rollout # None /\ user_id # None)
        => /\ GateShown(k, i)
           /\ Gate(Stored(k), user_id)
                 => \A q \in Stored(k).rollout[1]..Hundred :
                        Gate(AtRollout(Stored(k), q), user_id)

\* an evaluation at the rollout where the gate turns from false to true
C8_Witness ==
    /\ Called
    /\ user_id # None
    /\ \E k \in Keys :
          /\ HasFlag(k)
          /\ Stored(k).enabled
          /\ Stored(k).rollout # None
          /\ Stored(k).rollout[1] \in 2..(Hundred - 1)
          /\ calls[1] = Answer(k, TRUE, None)
          /\ ~Gate(AtRollout(Stored(k), Stored(k).rollout[1] - 1), user_id)

\* C9: for an enabled flag whose gate passes and whose variants map is present
\* with total weight 0, eval_flag returns matched = true and variant = None.
C9_ZeroWeight ==
    \A k \in Keys : \A i \in 1..Len(calls) :
        (Selecting(k) /\ WeightTotal(Stored(k).variants[1]) = U32Zero)
        => calls[i] = Answer(k, TRUE, None)

C9_Witness ==
    /\ Called
    /\ user_id # None
    /\ \E k \in Keys :
          /\ Selecting(k)
          /\ Stored(k).rollout = Some(50)
          /\ DOMAIN Stored(k).variants[1] = {"A", "B"}
          /\ WeightTotal(Stored(k).variants[1]) = U32Zero

\* the fields of the stored row that a patch does not name
Kept(input, row) ==
    <<IF input.enabled = None THEN Some(row.enabled) ELSE None,
      IF input.variants = None /\ row.variants # None
          THEN Some(from_str(row.variants[1])) ELSE None,
      IF input.rollout = None THEN Some(row.rollout) ELSE None>>

\* C10: the UPDATE of an update_flag request leaves every field its request
\* omits at the value stored at the moment of the write, also when another
\* update_flag request wrote the row after this one read it.
C10_UpdateKeepsOmitted ==
    [][\A p \in Procs :
          (req[p].pc = "update" /\ req'[p].pc = "reselect"
             /\ db[req[p].existing.key] # None)
          => Kept(req[p].input, db'[req[p].existing.key][1])
                 = Kept(req[p].input, db[req[p].existing.key][1])]_vars
====
